---------------------------- MODULE Spec2Model ----------------------------
(***************************************************************************)
(* Model of src/bot.py: the Ollama-backed fake-news classifier.            *)
(*                                                                         *)
(* Texts are TLA+ strings handled character by character (Len, SubSeq,     *)
(* \o).  A confidence is kept in hundredths (0.87 is 87): every value the  *)
(* code produces, N / 100 and 0.5 + score * 0.1, is the float nearest to a *)
(* whole number of hundredths, so comparisons and min are the same.        *)
(***************************************************************************)
EXTENDS Integers, Sequences, FiniteSets, TLC

VARIABLES pc, title, content, prompt, posted, exchange, response, result, steps

vars == <<pc, title, content, prompt, posted, exchange, response, result, steps>>

---------------------------------------------------------------------------
(* Python string primitives                                                *)

UpperLetters == "ABCDEFGHIJKLMNOPQRSTUVWXYZ"
LowerLetters == "abcdefghijklmnopqrstuvwxyz"
Digits == "0123456789"

Min(a, b) == IF a <= b THEN a ELSE b

CharAt(s, i) == SubSeq(s, i, i)

\* the 1-based index of character c in alphabet, 0 when absent
IndexIn(alphabet, c) ==
  LET at == {i \in 1..Len(alphabet) : CharAt(alphabet, i) = c}
  IN IF at = {} THEN 0 ELSE CHOOSE i \in at : TRUE

LowerChar(c) ==
  LET i == IndexIn(UpperLetters, c)
  IN IF i = 0 THEN c ELSE CharAt(LowerLetters, i)

\* str.lower(), by halves so that long texts need little nesting
RECURSIVE Lower(_)
Lower(s) ==
  IF Len(s) = 0 THEN ""
  ELSE IF Len(s) = 1 THEN LowerChar(s)
  ELSE Lower(SubSeq(s, 1, Len(s) \div 2)) \o Lower(SubSeq(s, Len(s) \div 2 + 1, Len(s)))

\* s[i:].startswith(p)
StartsAt(s, i, p) == i + Len(p) - 1 <= Len(s) /\ SubSeq(s, i, i + Len(p) - 1) = p

\* p in s
Contains(s, p) == \E i \in 1..(Len(s) - Len(p) + 1) : StartsAt(s, i, p)

\* s.count(p): non-overlapping occurrences, scanning from the left
RECURSIVE CountFrom(_, _, _)
CountFrom(s, p, i) ==
  IF i + Len(p) - 1 > Len(s) THEN 0
  ELSE IF StartsAt(s, i, p) THEN 1 + CountFrom(s, p, i + Len(p))
  ELSE CountFrom(s, p, i + 1)

Count(s, p) == CountFrom(s, p, 1)

\* s[:n]
Slice(s, n) == SubSeq(s, 1, Min(n, Len(s)))

IsDigit(c) == IndexIn(Digits, c) # 0

IsSpace(c) == c \in {" ", "\n", "\t", "\r"}

\* int(s) for a string of decimal digits
RECURSIVE ToInt(_)
ToInt(s) ==
  IF Len(s) = 0 THEN 0
  ELSE 10 * ToInt(SubSeq(s, 1, Len(s) - 1)) + (IndexIn(Digits, CharAt(s, Len(s))) - 1)

---------------------------------------------------------------------------
(* Python values that response.json().get("response", "") can return       *)

PyStr(s) == [t |-> "str", s |-> s, n |-> 0]
PyInt(n) == [t |-> "int", s |-> "", n |-> n]
PyList(n) == [t |-> "list", s |-> "", n |-> n]
PyNone == [t |-> "NoneType", s |-> "", n |-> 0]

\* bool(v), as `not response` evaluates it
Truthy(v) ==
  CASE v.t = "str" -> v.s # ""
    [] v.t = "int" -> v.n # 0
    [] v.t = "list" -> v.n > 0
    [] OTHER -> FALSE

---------------------------------------------------------------------------
(* call_ollama                                                             *)

OLLAMA_URL == "http://ollama:11434"
OLLAMA_MODEL == "llama3.2"

\* what requests.post is given; temperature 0.1 is kept as its text
generate_request(p) ==
  [url |-> OLLAMA_URL \o "/api/generate",
   json |-> [model |-> OLLAMA_MODEL, prompt |-> p, stream |-> FALSE,
             options |-> [temperature |-> "0.1", num_predict |-> 150]],
   timeout |-> 25]

\* One exchange with the completion service, as requests.post sees it:
\* error is the exception requests.post raises ("none": a response came),
\* status the HTTP status, json the shape of the body.
Exchange(error, status, json, has_response, value) ==
  [error |-> error, status |-> status, json |-> json,
   has_response |-> has_response, value |-> value]

\* no request has been sent yet
NoExchange == Exchange("unsent", 0, "invalid", FALSE, PyNone)

\* response.raise_for_status() raises HTTPError for 4xx and 5xx
raise_for_status(status) == status >= 400 /\ status < 600

\* What call_ollama returns: every exception inside the try block becomes "".
call_ollama(x) ==
  IF x.error # "none" THEN PyStr("")                \* requests.post raised
  ELSE IF raise_for_status(x.status) THEN PyStr("") \* HTTPError
  ELSE IF x.json = "invalid" THEN PyStr("")         \* response.json(): ValueError
  ELSE IF x.json # "object" THEN PyStr("")          \* list/str/int has no .get
  ELSE IF ~x.has_response THEN PyStr("")            \* .get default
  ELSE x.value

---------------------------------------------------------------------------
(* parse_response                                                          *)

ConfidenceWords == <<"confident", "confidence", "certain">>

\* %?\s*(confident|confidence|certain) matches at j, for some way to backtrack
TailMatches(s, j) ==
  \E p \in (IF StartsAt(s, j, "%") THEN {j + 1, j} ELSE {j}) :
    \E k \in p..Len(s) :
      /\ \A m \in p..(k - 1) : IsSpace(CharAt(s, m))
      /\ \E w \in 1..Len(ConfidenceWords) : StartsAt(s, k, ConfidenceWords[w])

\* (\d{1,3}) then the tail, with d digits taken at i
MatchesWith(s, i, d) ==
  /\ i + d - 1 <= Len(s)
  /\ \A m \in i..(i + d - 1) : IsDigit(CharAt(s, m))
  /\ TailMatches(s, i + d)

\* the greedy \d{1,3} tries 3 digits, then 2, then 1; 0: no match at i
MatchLenAt(s, i) ==
  IF MatchesWith(s, i, 3) THEN 3
  ELSE IF MatchesWith(s, i, 2) THEN 2
  ELSE IF MatchesWith(s, i, 1) THEN 1
  ELSE 0

\* a search that also takes the number after the word ("confidence: 85%")
confidence_match_either_order(s) ==
  IF \E i \in 1..Len(s) : MatchLenAt(s, i) > 0
  THEN LET i == CHOOSE i \in 1..Len(s) :
                  MatchLenAt(s, i) > 0 /\ \A h \in 1..(i - 1) : MatchLenAt(s, h) = 0
       IN SubSeq(s, i, i + MatchLenAt(s, i) - 1)
  ELSE IF \E i \in 1..Len(s) : StartsAt(s, i, "confidence: ") /\ IsDigit(CharAt(s, i + 12))
  THEN LET i == CHOOSE i \in 1..Len(s) :
                  StartsAt(s, i, "confidence: ") /\ IsDigit(CharAt(s, i + 12))
           d == CHOOSE d \in 1..3 :
                  /\ \A m \in (i + 12)..(i + 11 + d) : IsDigit(CharAt(s, m))
                  /\ (d = 3 \/ ~IsDigit(CharAt(s, i + 12 + d)))
       IN SubSeq(s, i + 12, i + 11 + d)
  ELSE ""

\* re.search(...): group(1) of the leftmost match, "" when there is none
confidence_match(s) ==
  IF \E i \in 1..Len(s) : MatchLenAt(s, i) > 0
  THEN LET i == CHOOSE i \in 1..Len(s) :
                  MatchLenAt(s, i) > 0 /\ \A h \in 1..(i - 1) : MatchLenAt(s, h) = 0
       IN SubSeq(s, i, i + MatchLenAt(s, i) - 1)
  ELSE ""

\* the phrase cues tried before the explicit markers
parse_is_fake_phrases_first(response_lower) ==
  IF Contains(response_lower, "this is fake") \/ Contains(response_lower, "appears to be fake")
    THEN TRUE
  ELSE IF \/ Contains(response_lower, "this is real")
          \/ Contains(response_lower, "appears to be real")
          \/ Contains(response_lower, "legitimate")
    THEN FALSE
  ELSE IF Contains(response_lower, "verdict: fake") \/ Contains(response_lower, "classification: fake")
    THEN TRUE
  ELSE IF Contains(response_lower, "verdict: real") \/ Contains(response_lower, "classification: real")
    THEN FALSE
  ELSE Count(response_lower, "fake") + Count(response_lower, "misinformation")
         + Count(response_lower, "false")
       > Count(response_lower, "real") + Count(response_lower, "legitimate")
         + Count(response_lower, "credible")

\* fake_count >= real_count in the frequency heuristic
parse_is_fake_ties_fake(response_lower) ==
  IF Contains(response_lower, "verdict: fake") \/ Contains(response_lower, "classification: fake")
    THEN TRUE
  ELSE IF Contains(response_lower, "verdict: real") \/ Contains(response_lower, "classification: real")
    THEN FALSE
  ELSE IF Contains(response_lower, "this is fake") \/ Contains(response_lower, "appears to be fake")
    THEN TRUE
  ELSE IF \/ Contains(response_lower, "this is real")
          \/ Contains(response_lower, "appears to be real")
          \/ Contains(response_lower, "legitimate")
    THEN FALSE
  ELSE Count(response_lower, "fake") + Count(response_lower, "misinformation")
         + Count(response_lower, "false")
       >= Count(response_lower, "real") + Count(response_lower, "legitimate")
         + Count(response_lower, "credible")

parse_is_fake(response_lower) ==
  IF Contains(response_lower, "verdict: fake") \/ Contains(response_lower, "classification: fake")
    THEN TRUE
  ELSE IF Contains(response_lower, "verdict: real") \/ Contains(response_lower, "classification: real")
    THEN FALSE
  ELSE IF Contains(response_lower, "this is fake") \/ Contains(response_lower, "appears to be fake")
    THEN TRUE
  ELSE IF \/ Contains(response_lower, "this is real")
          \/ Contains(response_lower, "appears to be real")
          \/ Contains(response_lower, "legitimate")
    THEN FALSE
  ELSE LET fake_count == Count(response_lower, "fake")
                         + Count(response_lower, "misinformation")
                         + Count(response_lower, "false")
           real_count == Count(response_lower, "real")
                         + Count(response_lower, "legitimate")
                         + Count(response_lower, "credible")
       IN fake_count > real_count

\* the percentage taken without the cap at 1.0
parse_confidence_unclamped(response_lower) ==
  IF confidence_match(response_lower) # ""
    THEN ToInt(confidence_match(response_lower))
  ELSE IF Contains(response_lower, "highly likely") \/ Contains(response_lower, "very confident")
    THEN 90
  ELSE IF Contains(response_lower, "likely") \/ Contains(response_lower, "probably")
    THEN 75
  ELSE IF Contains(response_lower, "possibly") \/ Contains(response_lower, "might be")
    THEN 60
  ELSE IF Contains(response_lower, "uncertain")
    THEN 50
  ELSE 75

parse_confidence(response_lower) ==
  IF confidence_match(response_lower) # ""
    THEN Min(ToInt(confidence_match(response_lower)), 100)
  ELSE IF Contains(response_lower, "highly likely") \/ Contains(response_lower, "very confident")
    THEN 90
  ELSE IF Contains(response_lower, "likely") \/ Contains(response_lower, "probably")
    THEN 75
  ELSE IF Contains(response_lower, "possibly") \/ Contains(response_lower, "might be")
    THEN 60
  ELSE IF Contains(response_lower, "uncertain")
    THEN 50
  ELSE 75

parse_response(text) ==
  LET response_lower == Lower(text)
  IN [is_fake |-> parse_is_fake(response_lower),
      confidence |-> parse_confidence(response_lower)]

---------------------------------------------------------------------------
(* fallback_analyze                                                        *)

fake_keywords == <<"shocking", "unbelievable", "miracle", "secret", "conspiracy">>

\* sum(1 for k in fake_keywords if k in text), keyword by keyword
RECURSIVE fallback_score(_, _)
fallback_score(text, i) ==
  IF i > Len(fake_keywords) THEN 0
  ELSE (IF Contains(text, fake_keywords[i]) THEN 1 ELSE 0) + fallback_score(text, i + 1)

\* sum(text.count(k) for k in fake_keywords): repetitions counted
RECURSIVE fallback_count(_, _)
fallback_count(text, i) ==
  IF i > Len(fake_keywords) THEN 0
  ELSE Count(text, fake_keywords[i]) + fallback_count(text, i + 1)

fallback_analyze_counting(article_title, article_content) ==
  LET text == Lower(article_title \o " " \o article_content)
      score == fallback_count(text, 1)
  IN [is_fake |-> score >= 2, confidence |-> Min(50 + score * 10, 90)]

fallback_analyze(article_title, article_content) ==
  LET text == Lower(article_title \o " " \o article_content)
      score == fallback_score(text, 1)
  IN [is_fake |-> score >= 2, confidence |-> Min(50 + score * 10, 90)]

---------------------------------------------------------------------------
(* analyze                                                                 *)

PromptContentLimit == 1500

PromptHead ==
  "You are a fake news detection expert. Analyze this news article and determine if it's FAKE or REAL.\n\nTITLE: "

PromptMiddle == "\n\nCONTENT: "

PromptTail ==
  "\n\nAnalyze for:\n1. Sensationalist language (shocking, unbelievable, miracle)\n2. Lack of credible sources\n3. Emotional manipulation\n4. Logical inconsistencies\n5. Implausible claims\n\nRespond with:\n- VERDICT: FAKE or REAL\n- CONFIDENCE: percentage (e.g., 85%)\n- REASON: one sentence explanation\n\nKeep your response brief and focused."

\* article_content[:1501]
build_prompt_off_by_one(article_title, article_content) ==
  PromptHead \o article_title \o PromptMiddle
    \o Slice(article_content, PromptContentLimit + 1) \o PromptTail

\* the f-string of analyze: the title whole, article_content[:1500]
build_prompt(article_title, article_content) ==
  PromptHead \o article_title \o PromptMiddle
    \o Slice(article_content, PromptContentLimit) \o PromptTail

\* a Verdict dict; the value before any is returned
NoVerdict == [is_fake |-> FALSE, confidence |-> 0]

---------------------------------------------------------------------------
(* Inputs                                                                  *)

MaxSlack == 2
MaxMarkerFrags == 3
MaxKeywordFrags == 4
MaxCueFrags == 2
MaxContentFrags == 3

RECURSIVE Filler(_)
Filler(n) ==
  IF n <= 0 THEN "" ELSE IF n = 1 THEN "-"
  ELSE Filler(n \div 2) \o Filler(n - n \div 2)

\* fragments joined by single spaces
RECURSIVE Join(_)
Join(frags) ==
  IF Len(frags) = 0 THEN ""
  ELSE IF Len(frags) = 1 THEN frags[1]
  ELSE frags[1] \o " " \o Join(Tail(frags))

\* the texts made of at most n fragments of vocab
TextsOver(vocab, n) == {Join(f) : f \in UNION {[1..k -> vocab] : k \in 0..n}}

Titles ==
  {"",
   "Federal Reserve Announces Interest Rate Decision",
   "SHOCKING: Scientists Discover Miracle Cure They Don't Want You To Know!"}

\* "Secret" ends 6 characters before the limit, "miracle" crosses it
LongText == Filler(PromptContentLimit - 12) \o "SECRET miracle conspiracy exposed"

Contents ==
  {"",
   "The Federal Reserve announced today that it will maintain current interest rates.",
   "In an unbelievable revelation, a secret group of researchers has discovered a miracle cure."}
  \cup {Slice(LongText, n) :
          n \in (PromptContentLimit - MaxSlack)..(PromptContentLimit + MaxSlack)}

ReplyTexts ==
  {"",
   "VERDICT: FAKE\nCONFIDENCE: 85%\nREASON: Sensationalist language and no credible sources.",
   "Verdict: REAL\nI am 92% confident this is legitimate reporting.",
   "This is probably misinformation: fake quotes, false numbers, one real name.",
   "Hard to say."}

Values ==
  {PyNone, PyInt(0), PyInt(5), PyList(0), PyList(1)} \cup {PyStr(t) : t \in ReplyTexts}

Statuses == {200, 404, 500}

Exchanges ==
  {Exchange(e, 0, "invalid", FALSE, PyNone) : e \in {"ConnectionError", "Timeout"}}
  \cup {Exchange("none", st, j, FALSE, PyNone) :
          st \in Statuses, j \in {"invalid", "array", "object"}}
  \cup {Exchange("none", st, "object", TRUE, v) : st \in Statuses, v \in Values}

MarkerVocab ==
  {"Verdict: FAKE", "VERDICT: Real", "Classification: REAL", "classification: fake",
   "This is fake", "Appears to be fake", "this is real", "appears to be real",
   "Legitimate", "real credible"}

KeywordVocab == {"Fake", "false", "misinformation", "real", "credible"}

CueVocab ==
  {"87% confident", "150% confident", "1234%\nConfidence", "7", "certain",
   "highly likely", "very confident", "likely", "Probably", "possibly", "might be",
   "uncertain", "CONFIDENCE: 85%", "Verdict: FAKE", "real"}

ShapeVerdicts == {"FAKE", "REAL"}
ShapePercents == {"0", "5", "85", "100"}
ShapeReasons ==
  {"Sensationalist language and implausible claims.",
   "Highly likely fabricated.",
   "The sources are possibly unreliable.",
   "Probably true.",
   "Uncertain sourcing.",
   "I am 95% certain of this."}

\* the reply shape the prompt asks for
ShapedReply(v, n, r) ==
  "VERDICT: " \o v \o "\nCONFIDENCE: " \o n \o "%\nREASON: " \o r

ShapedReplies ==
  {ShapedReply(v, n, r) : v \in ShapeVerdicts, n \in ShapePercents, r \in ShapeReasons}

ParserTexts ==
  TextsOver(MarkerVocab, MaxMarkerFrags) \cup TextsOver(KeywordVocab, MaxKeywordFrags)
    \cup TextsOver(CueVocab, MaxCueFrags) \cup ShapedReplies

FallbackTitles ==
  {"", "Fed report", "SHOCKING secret", "SHOCKING: Secret MIRACLE cure"}

FallbackVocab ==
  {"Shocking", "UNBELIEVABLE", "miracles", "secretary", "conspiracy", "report"}

FallbackContents == TextsOver(FallbackVocab, MaxContentFrags)

---------------------------------------------------------------------------
(* One analyze call after another                                          *)

Init ==
  /\ pc = "idle"
  /\ title = ""
  /\ content = ""
  /\ prompt = ""
  /\ exchange = NoExchange
  /\ response = PyStr("")
  /\ result = NoVerdict
  /\ posted = <<>>
  /\ steps = <<>>

\* analyze is entered and builds the prompt
BuildPrompt(t, c) ==
  /\ pc = "idle"
  /\ title' = t
  /\ content' = c
  /\ prompt' = build_prompt(t, c)
  /\ exchange' = NoExchange
  /\ response' = PyStr("")
  /\ result' = NoVerdict
  /\ posted' = <<>>
  /\ steps' = <<"build_prompt">>
  /\ pc' = "prompt_built"

\* a call_ollama that posts again when the first request fails
CallOllamaRetry(x) ==
  /\ pc = "prompt_built"
  /\ posted' = IF Truthy(call_ollama(x)) THEN Append(posted, generate_request(prompt))
               ELSE posted \o <<generate_request(prompt), generate_request(prompt)>>
  /\ exchange' = x
  /\ response' = call_ollama(x)
  /\ steps' = IF Truthy(call_ollama(x)) THEN Append(steps, "call_ollama")
              ELSE steps \o <<"call_ollama", "call_ollama">>
  /\ pc' = "responded"
  /\ UNCHANGED <<title, content, prompt, result>>

\* response = call_ollama(prompt): one requests.post, whatever comes of it
CallOllama(x) ==
  /\ pc = "prompt_built"
  /\ posted' = Append(posted, generate_request(prompt))
  /\ exchange' = x
  /\ response' = call_ollama(x)
  /\ steps' = Append(steps, "call_ollama")
  /\ pc' = "responded"
  /\ UNCHANGED <<title, content, prompt, result>>

\* a fallback on the truncated content
FallbackTruncated ==
  /\ pc = "responded"
  /\ ~Truthy(response)
  /\ result' = fallback_analyze(title, Slice(content, PromptContentLimit))
  /\ steps' = Append(steps, "fallback_analyze")
  /\ pc' = "returned"
  /\ UNCHANGED <<title, content, prompt, posted, exchange, response>>

\* if not response: return fallback_analyze(article_title, article_content)
Fallback ==
  /\ pc = "responded"
  /\ ~Truthy(response)
  /\ result' = fallback_analyze(title, content)
  /\ steps' = Append(steps, "fallback_analyze")
  /\ pc' = "returned"
  /\ UNCHANGED <<title, content, prompt, posted, exchange, response>>

\* result = parse_response(response); response.lower() raises AttributeError
\* when response is no str
Parse ==
  /\ pc = "responded"
  /\ Truthy(response)
  /\ steps' = Append(steps, "parse_response")
  /\ IF response.t = "str"
     THEN result' = parse_response(response.s) /\ pc' = "returned"
     ELSE result' = result /\ pc' = "raised"
  /\ UNCHANGED <<title, content, prompt, posted, exchange, response>>

\* the caller has the outcome; the next call may start
Return ==
  /\ pc \in {"returned", "raised"}
  /\ pc' = "idle"
  /\ UNCHANGED <<title, content, prompt, posted, exchange, response, result, steps>>

Next ==
  \/ \E t \in Titles, c \in Contents : BuildPrompt(t, c)
  \/ \E x \in Exchanges : CallOllama(x)
  \/ Fallback
  \/ Parse
  \/ Return

Spec == Init /\ [][Next]_vars

---------------------------------------------------------------------------
(* parse_response on its own                                               *)

InitParser ==
  /\ pc = "parse_response"
  /\ response \in {PyStr(t) : t \in ParserTexts}
  /\ exchange = NoExchange
  /\ title = ""
  /\ content = ""
  /\ prompt = ""
  /\ result = NoVerdict
  /\ posted = <<>>
  /\ steps = <<>>

ParseResponseCall ==
  /\ pc = "parse_response"
  /\ result' = parse_response(response.s)
  /\ pc' = "parsed"
  /\ UNCHANGED <<title, content, prompt, posted, exchange, response, steps>>

NextParser == ParseResponseCall

SpecParser == InitParser /\ [][NextParser]_vars

---------------------------------------------------------------------------
(* fallback_analyze on its own                                             *)

InitFallback ==
  /\ pc = "fallback_analyze"
  /\ title \in FallbackTitles
  /\ content \in FallbackContents
  /\ prompt = ""
  /\ exchange = NoExchange
  /\ response = PyStr("")
  /\ result = NoVerdict
  /\ posted = <<>>
  /\ steps = <<>>

FallbackCall ==
  /\ pc = "fallback_analyze"
  /\ result' = fallback_analyze(title, content)
  /\ pc' = "fell_back"
  /\ UNCHANGED <<title, content, prompt, posted, exchange, response, steps>>

NextFallback == FallbackCall

SpecFallback == InitFallback /\ [][NextFallback]_vars

---------------------------------------------------------------------------
(* Properties                                                              *)

Terminal == pc \in {"returned", "raised"}

\* the request failed: no response came, or one with a non-success status
RequestFailed(x) ==
  \/ x.error \in {"ConnectionError", "Timeout"}
  \/ x.error = "none" /\ (x.status < 200 \/ x.status >= 300)

\* the exchange is one of the failures the Completion Client must absorb
FailedExchange(x) ==
  \/ RequestFailed(x)
  \/ x.json # "object"
  \/ ~x.has_response
  \/ x.value.t # "str"

\* C1: whatever the completion service does, analyze ends by returning a
\* Verdict with a boolean is_fake and a confidence in [0.0, 1.0]; it never
\* raises.
C1_AnalyzeAlwaysReturnsVerdict ==
  Terminal =>
    /\ pc = "returned"
    /\ result.is_fake \in BOOLEAN
    /\ result.confidence \in 0..100

\* C2: an empty or failed completion gives exactly fallback_analyze on the
\* untruncated title and content, a non-empty text t gives exactly
\* parse_response(t), and one Verdict comes from exactly one of the two.
C2_Routing ==
  pc = "returned" =>
    /\ (response = PyStr("") => result = fallback_analyze(title, content))
    /\ (RequestFailed(exchange) => result = fallback_analyze(title, content))
    /\ (response.t = "str" /\ response.s # "" => result = parse_response(response.s))
    /\ Cardinality({i \in DOMAIN steps :
                      steps[i] \in {"fallback_analyze", "parse_response"}}) = 1
    /\ (response = PyStr("") => steps[Len(steps)] = "fallback_analyze")
    /\ (response.t = "str" /\ response.s # "" => steps[Len(steps)] = "parse_response")

C2_FallbackSeesWholeContent ==
  /\ pc = "returned"
  /\ response = PyStr("")
  /\ Len(content) > PromptContentLimit
  /\ result = fallback_analyze(title, content)
  /\ result # fallback_analyze(title, Slice(content, PromptContentLimit))

\* C3: for every failed exchange (transport error, timeout, non-success
\* status, body that is not a JSON object with a text `response` field)
\* call_ollama returns the empty string.
C3_FailuresBecomeEmptyString ==
  pc = "responded" /\ FailedExchange(exchange) => response = PyStr("")

\* C4: one analyze call issues at most one request, after the prompt is built
\* and before the parser or the fallback runs; a failed request is followed
\* by the fallback, never by a second request.
C4_OneRequestNoRetry ==
  /\ Len(posted) <= 1
  /\ Len(posted) = Cardinality({i \in DOMAIN steps : steps[i] = "call_ollama"})
  /\ Len(steps) <= 3
  /\ (Len(steps) >= 1 => steps[1] = "build_prompt" /\ prompt = build_prompt(title, content))
  /\ (Len(steps) >= 2 => steps[2] = "call_ollama" /\ posted[1].json.prompt = prompt)
  /\ (Len(steps) = 3 => steps[3] \in {"fallback_analyze", "parse_response"})
  /\ (Len(steps) = 3 /\ RequestFailed(exchange) => steps[3] = "fallback_analyze")
  /\ (Terminal => Len(posted) = 1)

C4_TimeoutThenFallback ==
  /\ pc = "returned"
  /\ exchange.error = "Timeout"
  /\ Len(posted) = 1
  /\ steps = <<"build_prompt", "call_ollama", "fallback_analyze">>

\* the parsed text, lower-cased
Lowered == Lower(response.s)

\* the number of places where p occurs in s
Occurrences(s, p) == Cardinality({i \in 1..Len(s) : StartsAt(s, i, p)})

ExplicitFake(s) == Contains(s, "verdict: fake") \/ Contains(s, "classification: fake")
ExplicitReal(s) == Contains(s, "verdict: real") \/ Contains(s, "classification: real")
PhraseFake(s) == Contains(s, "this is fake") \/ Contains(s, "appears to be fake")
PhraseReal(s) ==
  Contains(s, "this is real") \/ Contains(s, "appears to be real") \/ Contains(s, "legitimate")

FakeCount(s) ==
  Occurrences(s, "fake") + Occurrences(s, "misinformation") + Occurrences(s, "false")

RealCount(s) ==
  Occurrences(s, "real") + Occurrences(s, "legitimate") + Occurrences(s, "credible")

\* C5: "verdict: fake" in any case with no explicit real marker gives
\* is_fake = true whatever phrase cues and keywords the text holds,
\* "verdict: real" with no explicit fake marker gives false, and a rule of
\* the cascade that matches is never overridden by a later one.
C5_ExplicitMarkerWins ==
  pc = "parsed" =>
    LET s == Lowered
    IN /\ (Contains(s, "verdict: fake") /\ ~ExplicitReal(s) => result.is_fake)
       /\ (Contains(s, "verdict: real") /\ ~ExplicitFake(s) => ~result.is_fake)
       /\ (ExplicitFake(s) => result.is_fake)
       /\ (~ExplicitFake(s) /\ ExplicitReal(s) => ~result.is_fake)
       /\ (~ExplicitFake(s) /\ ~ExplicitReal(s) /\ PhraseFake(s) => result.is_fake)
       /\ (~ExplicitFake(s) /\ ~ExplicitReal(s) /\ ~PhraseFake(s) /\ PhraseReal(s)
             => ~result.is_fake)

C5_FakeMarkerAgainstRealCues ==
  /\ pc = "parsed"
  /\ Contains(Lowered, "verdict: fake")
  /\ ~ExplicitReal(Lowered)
  /\ PhraseReal(Lowered)
  /\ RealCount(Lowered) > FakeCount(Lowered)
  /\ result.is_fake

\* C6: with no explicit marker and no phrase cue, is_fake is true exactly
\* when the fake keywords occur more often than the real ones; a tie gives
\* false.
C6_FrequencyHeuristic ==
  pc = "parsed" =>
    LET s == Lowered
    IN ~ExplicitFake(s) /\ ~ExplicitReal(s) /\ ~PhraseFake(s) /\ ~PhraseReal(s) =>
         /\ result.is_fake = (FakeCount(s) > RealCount(s))
         /\ (FakeCount(s) = RealCount(s) => ~result.is_fake)
         /\ (FakeCount(s) = 3 /\ RealCount(s) = 1 => result.is_fake)

C6_ThreeAgainstOne ==
  /\ pc = "parsed"
  /\ ~ExplicitFake(Lowered) /\ ~ExplicitReal(Lowered)
  /\ ~PhraseFake(Lowered) /\ ~PhraseReal(Lowered)
  /\ FakeCount(Lowered) = 3
  /\ RealCount(Lowered) = 1
  /\ result.is_fake

\* optional whitespace, then "confident", "confidence" or "certain", at j
CueAfter(s, j) ==
  \E k \in j..Len(s) :
    /\ \A m \in j..(k - 1) : CharAt(s, m) \in {" ", "\n", "\t", "\r"}
    /\ (StartsAt(s, k, "confident") \/ StartsAt(s, k, "confidence") \/ StartsAt(s, k, "certain"))

\* d digits at i, an optional '%', optional whitespace, a confidence word
PercentPattern(s, i, d) ==
  /\ i + d - 1 <= Len(s)
  /\ \A m \in i..(i + d - 1) : \E c \in 1..10 : CharAt(s, m) = CharAt("0123456789", c)
  /\ (CueAfter(s, i + d) \/ (StartsAt(s, i + d, "%") /\ CueAfter(s, i + d + 1)))

PatternStarts(s) == {i \in 1..Len(s) : \E d \in 1..3 : PercentPattern(s, i, d)}

\* the number of the first place the pattern matches
FirstPercent(s) ==
  LET i == CHOOSE i \in PatternStarts(s) : \A h \in PatternStarts(s) : i <= h
      d == CHOOSE d \in 1..3 :
             PercentPattern(s, i, d) /\ \A e \in 1..3 : PercentPattern(s, i, e) => e <= d
  IN ToInt(SubSeq(s, i, i + d - 1))

\* rules (2) to (6) of the confidence cascade
CueConfidence(s) ==
  CASE Contains(s, "highly likely") \/ Contains(s, "very confident") -> 90
    [] Contains(s, "likely") \/ Contains(s, "probably") -> 75
    [] Contains(s, "possibly") \/ Contains(s, "might be") -> 60
    [] Contains(s, "uncertain") -> 50
    [] OTHER -> 75

\* C7: the confidence is that of the first matching rule: a 1-3 digit
\* number before "confident", "confidence" or "certain" gives
\* min(N / 100, 1.0), then the cue phrases in their order, then 0.75; it
\* does not depend on is_fake.
C7_ConfidenceCascade ==
  pc = "parsed" =>
    /\ LET s == Lowered
       IN result.confidence =
            (IF PatternStarts(s) # {} THEN Min(FirstPercent(s), 100) ELSE CueConfidence(s))
    /\ (response.s = "87% confident" => result.confidence = 87)
    /\ (response.s = "150% confident" => result.confidence = 100)

C7_ClampedBeforeCue ==
  /\ pc = "parsed"
  /\ Contains(Lowered, "150% confident")
  /\ Contains(Lowered, "uncertain")
  /\ result.confidence = 100

\* the keywords that occur in text
KeywordsIn(text) ==
  {k \in {"shocking", "unbelievable", "miracle", "secret", "conspiracy"} : Contains(text, k)}

FallbackScore == Cardinality(KeywordsIn(Lower(title \o " " \o content)))

\* C8: score counts each of the five keywords once when it occurs in the
\* lower-cased title + ' ' + content; is_fake = (score >= 2) and
\* confidence = min(0.5 + 0.1 * score, 0.9), between 0.5 and 0.9.

C8_FallbackScore ==
  pc = "fell_back" =>
    LET score == FallbackScore
    IN /\ score \in 0..5
       /\ result.is_fake = (score >= 2)
       /\ result.confidence = Min(50 + 10 * score, 90)
       /\ result.confidence >= 50 /\ result.confidence <= 90
       /\ (score = 2 => result = [is_fake |-> TRUE, confidence |-> 70])
       /\ (score = 0 => result = [is_fake |-> FALSE, confidence |-> 50])

C8_RepeatedKeywordCountsOnce ==
  /\ pc = "fell_back"
  /\ FallbackScore = 2
  /\ Occurrences(Lower(title \o " " \o content), "conspiracy") >= 2
  /\ result = [is_fake |-> TRUE, confidence |-> 70]

\* C9: the prompt holds the title whole and exactly the first
\* min(len(content), 1500) characters of the content between the fixed
\* parts of the template.
C9_PromptTruncation ==
  Len(posted) >= 1 =>
    LET prompt_sent == posted[1].json.prompt
        keep == Min(Len(content), PromptContentLimit)
        at_title == Len(PromptHead)
        at_content == Len(PromptHead) + Len(title) + Len(PromptMiddle)
    IN /\ Len(prompt_sent) = at_content + keep + Len(PromptTail)
       /\ SubSeq(prompt_sent, 1, at_title) = PromptHead
       /\ SubSeq(prompt_sent, at_title + 1, at_title + Len(title)) = title
       /\ SubSeq(prompt_sent, at_title + Len(title) + 1, at_content) = PromptMiddle
       /\ \A i \in 1..keep : CharAt(prompt_sent, at_content + i) = CharAt(content, i)
       /\ SubSeq(prompt_sent, at_content + keep + 1, Len(prompt_sent)) = PromptTail
       /\ (Len(content) <= PromptContentLimit
             => SubSeq(prompt_sent, at_content + 1, at_content + Len(content)) = content)

C9_LongContentCut ==
  /\ pc = "responded"
  /\ Len(content) > PromptContentLimit
  /\ Contains(content, "miracle")
  /\ Len(posted) = 1
  /\ Len(posted[1].json.prompt) = Len(build_prompt(title, "")) + PromptContentLimit
  /\ ~Contains(SubSeq(posted[1].json.prompt,
                      Len(PromptHead) + Len(title) + Len(PromptMiddle) + 1,
                      Len(posted[1].json.prompt) - Len(PromptTail)), "miracle")

\* a digit stands directly before a confidence word
NumberBeforeCue(s) ==
  \E i \in 1..Len(s) :
    /\ \E c \in 1..10 : CharAt(s, i) = CharAt("0123456789", c)
    /\ (CueAfter(s, i + 1) \/ (StartsAt(s, i + 1, "%") /\ CueAfter(s, i + 2)))

\* C10: in a reply of the shape the prompt asks for, "CONFIDENCE: N%"
\* with no number directly before a confidence word, the percentage rule
\* does not fire: the confidence is that of the cue phrases or 0.75, the
\* same for every N.
C10_PercentAfterWordIgnored ==
  pc = "parsed" =>
    /\ LET s == Lowered
       IN Contains(s, "confidence: ") /\ ~NumberBeforeCue(s)
            => result.confidence = CueConfidence(s)
    /\ \A v \in ShapeVerdicts, n \in ShapePercents, r \in ShapeReasons :
         response.s = ShapedReply(v, n, r) /\ ~NumberBeforeCue(Lower(r)) =>
           \A n2 \in ShapePercents :
             parse_response(ShapedReply(v, n2, r)).confidence = result.confidence

C10_EightyFiveIgnored ==
  /\ pc = "parsed"
  /\ response.s = ShapedReply("FAKE", "85", "Sensationalist language and implausible claims.")
  /\ result.confidence = 75

=============================================================================
